---- MODULE Spec2Model ----
(***************************************************************************)
(* Model of rusty_mem_monitor (src/src/main.rs): the MemoryMonitor struct  *)
(* and its eframe::App::update callback, which samples the memory counters,*)
(* appends to two capped histories, evaluates the critical alarm, renders  *)
(* the frame and asks the host loop for the next repaint.                  *)
(*                                                                         *)
(* Floating point.  A percentage is the f32 that line 49 / 52 computes:     *)
(* the u64 counters converted to f64, their quotient rounded to f64, the   *)
(* product with 100.0 rounded to f64, then the cast to f32, every rounding *)
(* to nearest, ties to even.  The roundings are carried out on bit         *)
(* sequences.  An f32 is one of                                            *)
(*     [kind |-> "num", man |-> m, exp |-> e]   m * 2^e, m odd or m = e = 0*)
(*     [kind |-> "nan", ...]                    NaN   (0.0 / 0.0)          *)
(*     [kind |-> "inf", ...]                    +inf  (x / 0.0, x > 0)     *)
(* The counters are unsigned, so no negative value and no -inf arises.     *)
(* The arithmetic is that of the code for a total below 2^24 and a used    *)
(* below 2^31 (the checker's integers are 32 bits wide); no reading of the *)
(* model is larger.                                                        *)
(***************************************************************************)
EXTENDS Integers, Sequences, FiniteSets, TLC

(***************************************************************************)
(* Bounds of the model.                                                    *)
(***************************************************************************)
\* Capacity of the histories.  MemoryMonitor::new sets max_history to 100
\* (main.rs:22); the model runs the same code with a small capacity so that
\* the histories fill up and evict within the explored ticks.
MaxHistory == 2

\* Number of ticks (update calls) explored.
MaxTicks == 4

(***************************************************************************)
(* Readings of the metrics source (sysinfo::System after refresh_memory):  *)
(* <<total, used>> pairs of u64 counters.  The source is external; the     *)
(* code places no constraint on what it returns.                           *)
(***************************************************************************)
MemReadings ==
  { <<0, 0>>, <<0, 900>>, <<1000, 900>>, <<1000, 950>>, <<1000, 1500>>,
    <<10000001, 9000001>> }

SwapReadings == { <<0, 0>>, <<0, 500>>, <<3, 1>> }

Readings ==
  { [total_memory |-> m[1], used_memory |-> m[2], total_swap |-> s[1], used_swap |-> s[2]] :
      m \in MemReadings, s \in SwapReadings }

(***************************************************************************)
(* f64 / f32 arithmetic.  A bit sequence is most significant bit first.    *)
(***************************************************************************)
\* 2^k, by squaring.
RECURSIVE Pow2(_)
Pow2(k) ==
  IF k = 0 THEN 1
  ELSE LET h == Pow2(k \div 2) IN IF k % 2 = 0 THEN h * h ELSE 2 * h * h

\* The w-bit representation of n.
IntBits(n, w) == [ i \in 1..w |-> (n \div Pow2(w - i)) % 2 ]

\* The number a bit sequence of at most 30 bits represents.
RECURSIVE BitsToInt(_)
BitsToInt(b) ==
  IF Len(b) = 0 THEN 0
  ELSE IF Len(b) = 1 THEN b[1]
  ELSE LET h == Len(b) \div 2
       IN  BitsToInt(SubSeq(b, 1, h)) * Pow2(Len(b) - h) + BitsToInt(SubSeq(b, h + 1, Len(b)))

\* Long division of r / t (r < t < 2^24) in base 128: the remainder after k digits.
RECURSIVE FracRem(_, _, _)
FracRem(r, t, k) == IF k = 0 THEN r ELSE (FracRem(r, t, k - 1) * 128) % t

\* The first 91 bits (13 digits) of the binary fraction r / t.
FracBits(r, t) ==
  [ i \in 1..91 |->
      LET d == (FracRem(r, t, (i - 1) \div 7) * 128) \div t
      IN  (d \div Pow2(6 - ((i - 1) % 7))) % 2 ]

\* Position of the leading 1 of b.
First1(b) == CHOOSE i \in 1..Len(b) : b[i] = 1 /\ \A j \in 1..(i - 1) : b[j] = 0

\* Round b (leading bit 1, of weight 2^e, more than p bits, sticky: non-zero
\* bits beyond b) to p bits, to nearest, ties to even.
RoundBits(b, p, sticky, e) ==
  LET mant == SubSeq(b, 1, p)
      st == sticky \/ \E i \in (p + 2)..Len(b) : b[i] = 1
      up == b[p + 1] = 1 /\ (st \/ mant[p] = 1)
      zs == { i \in 1..p : mant[i] = 0 }
  IN  IF ~up THEN [mant |-> mant, e |-> e]
      ELSE IF zs = {} THEN [mant |-> [i \in 1..p |-> IF i = 1 THEN 1 ELSE 0], e |-> e + 1]
      ELSE LET j == CHOOSE i \in zs : \A k \in zs : k <= i
           IN  [mant |-> [i \in 1..p |-> IF i < j THEN mant[i] ELSE IF i = j THEN 1 ELSE 0],
                e |-> e]

\* u as f64 / t as f64, for 0 < u and 0 < t: 53 bits and the exponent of the first.
f64_div(u, t) ==
  LET b == IntBits(u \div t, 31) \o FracBits(u % t, t)
      l == First1(b)
  IN  RoundBits(SubSeq(b, l, Len(b)), 53, FracRem(u % t, t, 13) # 0, 31 - l)

\* q * 100.0 in f64: the 53 bits as three 18-bit limbs, each times 100.
f64_mul100(q) ==
  LET m == << 0 >> \o q.mant
      p0 == BitsToInt(SubSeq(m, 37, 54)) * 100
      p1 == BitsToInt(SubSeq(m, 19, 36)) * 100 + p0 \div 262144
      p2 == BitsToInt(SubSeq(m, 1, 18)) * 100 + p1 \div 262144
      b == IntBits(p2, 24) \o IntBits(p1 % 262144, 18) \o IntBits(p0 % 262144, 18)
      l == First1(b)
  IN  RoundBits(SubSeq(b, l, Len(b)) \o << 0 >>, 53, FALSE, q.e + 8 - l)

NaN == [kind |-> "nan", man |-> 0, exp |-> 0]

PosInf == [kind |-> "inf", man |-> 0, exp |-> 0]

\* The finite f32 m * 2^e (m < 2^24), with m made odd (0 is man = 0, exp = 0).
f32_value(m, e) ==
  IF m = 0 THEN [kind |-> "num", man |-> 0, exp |-> 0]
  ELSE LET z == CHOOSE k \in 0..23 : m % Pow2(k) = 0 /\ (m \div Pow2(k)) % 2 = 1
       IN  [kind |-> "num", man |-> m \div Pow2(z), exp |-> e + z]

\* y as f32: the 53 bits of y rounded to 24.
f64_as_f32(y) ==
  LET r == RoundBits(y.mant, 24, FALSE, y.e)
  IN  f32_value(BitsToInt(r.mant), r.e - 23)

\* x > c for a literal c >= 1 (IEEE: NaN compares false, +inf compares true).
f32_gt(x, c) ==
  CASE x.kind = "nan" -> FALSE
    [] x.kind = "inf" -> TRUE
    [] OTHER ->
         IF x.exp >= 0
           THEN IF x.exp >= 31 THEN x.man > 0 ELSE x.man > c \div Pow2(x.exp)
           ELSE IF 0 - x.exp >= 24 THEN FALSE ELSE x.man > c * Pow2(0 - x.exp)

\* (used as f64 / total as f64 * 100.0) as f32
percentage(used, total) ==
  IF total = 0
    THEN IF used = 0 THEN NaN ELSE PosInf
    ELSE IF used = 0
      THEN f32_value(0, 0)
      ELSE f64_as_f32(f64_mul100(f64_div(used, total)))

\* let memory_percentage = (used_memory / total_memory * 100.0) as f32;
mem_percentage(s) == percentage(s.used_memory, s.total_memory)

\* Variant: the swap percentage computed without the total_swap > 0 test.
swap_percentage_unguarded(s) == percentage(s.used_swap, s.total_swap)

\* let swap_percentage = if total_swap > 0 { used_swap / total_swap * 100 } else { 0.0 };
swap_percentage_of(s) ==
  IF s.total_swap > 0 THEN percentage(s.used_swap, s.total_swap) ELSE f32_value(0, 0)

\* The two percentages of lines 47-55 for every reading, computed once.
sample_of ==
  [ r \in Readings |-> [ memory_percentage |-> mem_percentage(r),
                         swap_percentage |-> swap_percentage_of(r) ] ]

\* (memory_percentage / 2.0) as usize: the halving is exact, the cast
\* truncates, sends NaN to 0 and saturates +inf at usize::MAX.  usize::MAX
\* does not fit the checker's integers, so the result carries a flag for it.
half_as_usize(x) ==
  CASE x.kind = "nan" -> [max |-> FALSE, n |-> 0]
    [] x.kind = "inf" -> [max |-> TRUE, n |-> 0]
    [] OTHER ->
         [max |-> FALSE,
          n |-> IF x.exp >= 1 THEN x.man * Pow2(x.exp - 1)
                ELSE IF 1 - x.exp >= 24 THEN 0
                ELSE x.man \div Pow2(1 - x.exp)]

\* "#".repeat(n) panics with "capacity overflow" when n exceeds isize::MAX.
repeat_panics(n) == n.max

\* Characters of format!("[{:^50}]", "#".repeat(n)): the run of '#' padded
\* to 50, and the two brackets.
bar_chars(n) == (IF n < 50 THEN 50 ELSE n) + 2

(***************************************************************************)
(* State.                                                                  *)
(***************************************************************************)
VARIABLES
  sys,                \* self.sys: the counters as of the last refresh
  memory_history,     \* self.memory_history
  swap_history,       \* self.swap_history
  max_history,        \* self.max_history
  glitch_effect,      \* self.glitch_effect
  critical_alarm,     \* self.critical_alarm
  memory_percentage,  \* local of update
  swap_percentage,    \* local of update
  frame,              \* what the last completed rendering put on the panel
  repaint_requested,  \* the host holds a request_repaint_after
  pc,                 \* position of the UI thread inside / outside update
  log                 \* history variable: every Sample taken, oldest first

vars == << sys, memory_history, swap_history, max_history, glitch_effect,
           critical_alarm, memory_percentage, swap_percentage, frame,
           repaint_requested, pc, log >>

NoFrame ==
  [ drawn |-> FALSE, title_glitched |-> FALSE, title_red |-> FALSE,
    usage_color |-> "green", bar_repeat |-> 0, bar_glitched |-> FALSE,
    bar_hashes_min |-> 0, bar_hashes_max |-> 0, bar_red |-> FALSE,
    memory_points |-> << >>, swap_points |-> << >>, warning |-> FALSE ]

\* MemoryMonitor::new, then eframe::run_native, which paints a first frame.
Init ==
  /\ sys \in Readings
  /\ memory_history = << >>
  /\ swap_history = << >>
  /\ max_history = MaxHistory
  /\ glitch_effect = FALSE
  /\ critical_alarm = FALSE
  /\ memory_percentage = f32_value(0, 0)
  /\ swap_percentage = f32_value(0, 0)
  /\ frame = NoFrame
  /\ repaint_requested = TRUE
  /\ pc = "idle"
  /\ log = << >>

(***************************************************************************)
(* update, lines 43-55: refresh the counters, draw the glitch flag, compute*)
(* the two percentages.  The host calls update when a repaint was          *)
(* requested or on demand (an input event).                                *)
(***************************************************************************)
Sample ==
  /\ pc = "idle"
  /\ Len(log) < MaxTicks
  /\ \E on_demand \in BOOLEAN : repaint_requested \/ on_demand
  /\ \E r \in Readings, g \in BOOLEAN :
       /\ sys' = r
       /\ glitch_effect' = g
       /\ memory_percentage' = sample_of[r].memory_percentage
       /\ swap_percentage' = sample_of[r].swap_percentage
       /\ log' = Append(log, sample_of[r])
  /\ repaint_requested' = FALSE
  /\ pc' = "sampled"
  /\ UNCHANGED << memory_history, swap_history, max_history, critical_alarm, frame >>

(***************************************************************************)
(* update, lines 57-63: push the sample on both histories and, when the    *)
(* memory history has grown past max_history, remove index 0 of both.      *)
(***************************************************************************)
\* Variant: the capacity test written with >= .
UpdateHistory_ge ==
  /\ pc = "sampled"
  /\ LET m == Append(memory_history, memory_percentage)
         s == Append(swap_history, swap_percentage)
     IN  IF Len(m) >= max_history
           THEN memory_history' = Tail(m) /\ swap_history' = Tail(s)
           ELSE memory_history' = m /\ swap_history' = s
  /\ pc' = "appended"
  /\ UNCHANGED << sys, max_history, glitch_effect, critical_alarm, memory_percentage,
                  swap_percentage, frame, repaint_requested, log >>

\* Variant: the eviction left out.
UpdateHistory_noevict ==
  /\ pc = "sampled"
  /\ memory_history' = Append(memory_history, memory_percentage)
  /\ swap_history' = Append(swap_history, swap_percentage)
  /\ pc' = "appended"
  /\ UNCHANGED << sys, max_history, glitch_effect, critical_alarm, memory_percentage,
                  swap_percentage, frame, repaint_requested, log >>

\* Variant: the eviction removes from memory_history only.
UpdateHistory_memonly ==
  /\ pc = "sampled"
  /\ LET m == Append(memory_history, memory_percentage)
         s == Append(swap_history, swap_percentage)
     IN  IF Len(m) > max_history
           THEN memory_history' = Tail(m) /\ swap_history' = s
           ELSE memory_history' = m /\ swap_history' = s
  /\ pc' = "appended"
  /\ UNCHANGED << sys, max_history, glitch_effect, critical_alarm, memory_percentage,
                  swap_percentage, frame, repaint_requested, log >>

UpdateHistory ==
  /\ pc = "sampled"
  /\ LET m == Append(memory_history, memory_percentage)
         s == Append(swap_history, swap_percentage)
     IN  IF Len(m) > max_history
           THEN memory_history' = Tail(m) /\ swap_history' = Tail(s)
           ELSE memory_history' = m /\ swap_history' = s
  /\ pc' = "appended"
  /\ UNCHANGED << sys, max_history, glitch_effect, critical_alarm, memory_percentage,
                  swap_percentage, frame, repaint_requested, log >>

(***************************************************************************)
(* update, line 65: self.critical_alarm = memory_percentage > 90.0;        *)
(***************************************************************************)
\* x >= c for an integer literal c.
f32_ge(x, c) ==
  CASE x.kind = "nan" -> FALSE
    [] x.kind = "inf" -> TRUE
    [] OTHER ->
         IF x.exp >= 0
           THEN IF x.exp >= 31 THEN x.man > 0
                ELSE x.man * Pow2(x.exp) >= c \/ x.man > c \div Pow2(x.exp)
           ELSE IF 0 - x.exp >= 24 THEN FALSE ELSE x.man >= c * Pow2(0 - x.exp)

\* Variant: the threshold test written with >= .
EvaluateAlarm_ge ==
  /\ pc = "appended"
  /\ critical_alarm' = f32_ge(memory_percentage, 90)
  /\ pc' = "alarmed"
  /\ UNCHANGED << sys, memory_history, swap_history, max_history, glitch_effect,
                  memory_percentage, swap_percentage, frame, repaint_requested, log >>

\* Variant: an alarm that latches once raised.
EvaluateAlarm_latch ==
  /\ pc = "appended"
  /\ critical_alarm' = (critical_alarm \/ f32_gt(memory_percentage, 90))
  /\ pc' = "alarmed"
  /\ UNCHANGED << sys, memory_history, swap_history, max_history, glitch_effect,
                  memory_percentage, swap_percentage, frame, repaint_requested, log >>

EvaluateAlarm ==
  /\ pc = "appended"
  /\ critical_alarm' = f32_gt(memory_percentage, 90)
  /\ pc' = "alarmed"
  /\ UNCHANGED << sys, memory_history, swap_history, max_history, glitch_effect,
                  memory_percentage, swap_percentage, frame, repaint_requested, log >>

(***************************************************************************)
(* update, lines 67-171: the panel.  Title, usage label, bar, chart,       *)
(* warning label and the two GB labels.  The bar is "#" repeated           *)
(* (memory_percentage / 2.0) as usize times; repeat panics when that count *)
(* is usize::MAX, which unwinds out of update and ends the process.        *)
(* With glitch_effect the title and the bar text go through                *)
(* generate_glitch_text, which replaces each character, with probability   *)
(* 0.3, by a random one of 28 glitch characters ('#' is one of them): the  *)
(* text on the panel is then any text of the same length, and the frame    *)
(* records the least and the greatest number of '#' the bar can show.      *)
(***************************************************************************)
\* points[i] = [i as f64, y as f64], i counted from 0.
chart_points(h) == [ i \in 1..Len(h) |-> << i - 1, h[i] >> ]

usage_color(p) ==
  IF f32_gt(p, 90) THEN "red" ELSE IF f32_gt(p, 70) THEN "yellow" ELSE "green"

\* Variant: the chart built by draining the history.
Render_drain ==
  /\ pc = "alarmed"
  /\ LET n == half_as_usize(memory_percentage)
     IN  IF repeat_panics(n)
           THEN /\ pc' = "panicked"
                /\ UNCHANGED << frame, memory_history >>
           ELSE /\ frame' = [ drawn |-> TRUE,
                              title_glitched |-> glitch_effect,
                              title_red |-> critical_alarm,
                              usage_color |-> usage_color(memory_percentage),
                              bar_repeat |-> n.n,
                              bar_glitched |-> glitch_effect,
                              bar_hashes_min |-> IF glitch_effect THEN 0 ELSE n.n,
                              bar_hashes_max |-> IF glitch_effect THEN bar_chars(n.n) ELSE n.n,
                              bar_red |-> f32_gt(memory_percentage, 90),
                              memory_points |-> chart_points(memory_history),
                              swap_points |-> chart_points(swap_history),
                              warning |-> critical_alarm ]
                /\ memory_history' = << >>
                /\ pc' = "rendered"
  /\ UNCHANGED << sys, swap_history, max_history, glitch_effect,
                  critical_alarm, memory_percentage, swap_percentage,
                  repaint_requested, log >>

Render ==
  /\ pc = "alarmed"
  /\ LET n == half_as_usize(memory_percentage)
     IN  IF repeat_panics(n)
           THEN /\ pc' = "panicked"
                /\ UNCHANGED frame
           ELSE /\ frame' = [ drawn |-> TRUE,
                              title_glitched |-> glitch_effect,
                              title_red |-> critical_alarm,
                              usage_color |-> usage_color(memory_percentage),
                              bar_repeat |-> n.n,
                              bar_glitched |-> glitch_effect,
                              bar_hashes_min |-> IF glitch_effect THEN 0 ELSE n.n,
                              bar_hashes_max |-> IF glitch_effect THEN bar_chars(n.n) ELSE n.n,
                              bar_red |-> f32_gt(memory_percentage, 90),
                              memory_points |-> chart_points(memory_history),
                              swap_points |-> chart_points(swap_history),
                              warning |-> critical_alarm ]
                /\ pc' = "rendered"
  /\ UNCHANGED << sys, memory_history, swap_history, max_history, glitch_effect,
                  critical_alarm, memory_percentage, swap_percentage,
                  repaint_requested, log >>

(***************************************************************************)
(* update, line 173: ctx.request_repaint_after(500 ms); update returns.    *)
(***************************************************************************)
RequestRepaint ==
  /\ pc = "rendered"
  /\ repaint_requested' = TRUE
  /\ pc' = "idle"
  /\ UNCHANGED << sys, memory_history, swap_history, max_history, glitch_effect,
                  critical_alarm, memory_percentage, swap_percentage, frame, log >>

Next ==
  \/ Sample
  \/ UpdateHistory
  \/ EvaluateAlarm
  \/ Render
  \/ RequestRepaint

Spec == Init /\ [][Next]_vars

(***************************************************************************)
(* Vocabulary of the properties.                                           *)
(***************************************************************************)
Min(a, b) == IF a < b THEN a ELSE b

\* Number of ticks whose append has run.
Appended == IF pc = "sampled" THEN Len(log) - 1 ELSE Len(log)

\* The last n elements of s.
LastN(s, n) == SubSeq(s, Len(s) - n + 1, Len(s))

MemOf(l) == [ i \in 1..Len(l) |-> l[i].memory_percentage ]

SwapOf(l) == [ i \in 1..Len(l) |-> l[i].swap_percentage ]

\* The alarm of the current tick has been evaluated.
AlarmEvaluated ==
  \/ pc \in {"alarmed", "rendered", "panicked"}
  \/ pc = "idle" /\ Len(log) > 0

\* The value is a number strictly above 90, or +inf.
Exceeds90(x) ==
  \/ x.kind = "inf"
  \/ /\ x.kind = "num"
     /\ x.man > 0
     /\ IF x.exp >= 0
          THEN x.exp >= 7 \/ x.man * Pow2(x.exp) > 90
          ELSE 0 - x.exp < 24 /\ x.man > 90 * Pow2(0 - x.exp)

\* The value is a number (neither NaN nor infinite).
IsFinite(x) == x.kind = "num"

Zero == [kind |-> "num", man |-> 0, exp |-> 0]

\* 90 = 45 * 2
Ninety == [kind |-> "num", man |-> 45, exp |-> 1]

NinetyFive == [kind |-> "num", man |-> 95, exp |-> 0]

\* A number within [0, 100].
InPercentRange(x) ==
  /\ x.kind = "num"
  /\ x.man >= 0
  /\ IF x.exp >= 0
       THEN x.man = 0 \/ (x.exp < 7 /\ x.man * Pow2(x.exp) <= 100)
       ELSE 0 - x.exp >= 24 \/ x.man <= 100 * Pow2(0 - x.exp)

(***************************************************************************)
(* C1.  After k ticks from the empty history, memory_history holds exactly *)
(* the last min(k, max_history) memory percentages sampled, oldest first,  *)
(* and swap_history the last min(k, max_history) swap percentages.         *)
(***************************************************************************)
C1_HistoryIsLastSamples ==
  LET k == Appended
      m == Min(k, max_history)
      done == SubSeq(log, 1, k)
  IN  /\ Len(memory_history) = m
      /\ Len(swap_history) = m
      /\ memory_history = LastN(MemOf(done), m)
      /\ swap_history = LastN(SwapOf(done), m)

\* More ticks than the capacity have run, and the oldest sample is gone.
C1_Witness ==
  /\ pc = "idle"
  /\ Len(log) = max_history + 2
  /\ Len(memory_history) = max_history
  /\ memory_history[1] = log[3].memory_percentage
  /\ memory_history[1] # log[1].memory_percentage

(***************************************************************************)
(* C2.  The two histories always have the same length, at most             *)
(* max_history; a tick's append step puts exactly one sample at the end of *)
(* each and removes at most one element, the oldest, from each; no other   *)
(* step changes their lengths.                                             *)
(***************************************************************************)
C2_LengthsBounded ==
  /\ [](/\ Len(memory_history) = Len(swap_history)
        /\ Len(memory_history) <= max_history)
  /\ [][ IF pc = "sampled"
           THEN /\ memory_history' \in { memory_history \o << memory_percentage >>,
                                         Tail(memory_history \o << memory_percentage >>) }
                /\ swap_history' \in { swap_history \o << swap_percentage >>,
                                       Tail(swap_history \o << swap_percentage >>) }
           ELSE /\ Len(memory_history') = Len(memory_history)
                /\ Len(swap_history') = Len(swap_history) ]_vars

\* A full history has just taken a sample and evicted one.
C2_Witness ==
  /\ pc = "appended"
  /\ Len(log) > max_history
  /\ Len(memory_history) = max_history
  /\ Len(swap_history) = max_history

(***************************************************************************)
(* C3.  Once a tick has evaluated the alarm, critical_alarm is true iff    *)
(* the memory percentage sampled in that tick is strictly above 90: 90     *)
(* itself gives false, 95 (used 950 of 1000) gives true.                   *)
(***************************************************************************)
C3_AlarmIffAbove90 ==
  AlarmEvaluated =>
    /\ critical_alarm <=> Exceeds90(log[Len(log)].memory_percentage)
    /\ log[Len(log)].memory_percentage = Ninety => ~critical_alarm
    /\ (sys.total_memory = 1000 /\ sys.used_memory = 950) =>
         (log[Len(log)].memory_percentage = NinetyFive /\ critical_alarm)
    /\ (sys.total_memory = 10000001 /\ sys.used_memory = 9000001) =>
         (log[Len(log)].memory_percentage = Ninety /\ ~critical_alarm)

\* The scenario of the specification: 950 of 1000 used, alarm raised.
C3_Witness ==
  /\ pc = "idle"
  /\ sys.total_memory = 1000
  /\ sys.used_memory = 950
  /\ memory_percentage = NinetyFive
  /\ critical_alarm

\* Exactly 90: the alarm is down.
C3_WitnessNinety ==
  /\ pc = "idle"
  /\ Len(log) > 0
  /\ memory_percentage = Ninety
  /\ ~critical_alarm

(***************************************************************************)
(* C4.  In a tick whose refresh reports total_swap = 0, the swap           *)
(* percentage sampled is 0 whatever used_swap is, and 0 is what the append *)
(* step puts at the end of swap_history.                                   *)
(***************************************************************************)
C4_ZeroTotalSwapGivesZero ==
  (Len(log) > 0 /\ sys.total_swap = 0) =>
    /\ swap_percentage = Zero
    /\ log[Len(log)].swap_percentage = Zero
    /\ pc # "sampled" => swap_history[Len(swap_history)] = Zero

\* total_swap = 0 with a non-zero used_swap, appended.
C4_Witness ==
  /\ pc = "appended"
  /\ sys.total_swap = 0
  /\ sys.used_swap = 500
  /\ swap_history[Len(swap_history)] = Zero

(***************************************************************************)
(* C5.  The sample step has no error condition: for every reading, also    *)
(* total_memory = 0, memory_percentage is a defined number, the tick       *)
(* completes and the sample appended is well defined.                      *)
(***************************************************************************)
C5_NoErrorConditions ==
  /\ Len(log) > 0 => IsFinite(memory_percentage) /\ IsFinite(swap_percentage)
  /\ \A i \in 1..Len(memory_history) : IsFinite(memory_history[i])
  /\ pc # "panicked"

(***************************************************************************)
(* C6.  Every element of memory_history and of swap_history is a number    *)
(* within [0, 100], whatever the metrics source returns.                   *)
(***************************************************************************)
C6_PercentagesInRange ==
  /\ \A i \in 1..Len(memory_history) : InPercentRange(memory_history[i])
  /\ \A i \in 1..Len(swap_history) : InPercentRange(swap_history[i])

(***************************************************************************)
(* C7.  Reading the histories does not change them: only the append step   *)
(* changes memory_history or swap_history, and rendering and the repaint   *)
(* request leave both and critical_alarm as they are.  The chart point     *)
(* built from position i (counted from 0) has x = i and y = history[i].    *)
(***************************************************************************)
C7_RenderingReadsOnly ==
  /\ [][ (pc # "sampled") => (UNCHANGED << memory_history, swap_history >>) ]_vars
  /\ [][ (pc \in {"alarmed", "rendered"}) =>
           (UNCHANGED << memory_history, swap_history, critical_alarm >>) ]_vars
  /\ [](pc = "rendered" =>
          /\ Len(frame.memory_points) = Len(memory_history)
          /\ Len(frame.swap_points) = Len(swap_history)
          /\ \A i \in 1..Len(memory_history) :
               frame.memory_points[i] = << i - 1, memory_history[i] >>
          /\ \A i \in 1..Len(swap_history) :
               frame.swap_points[i] = << i - 1, swap_history[i] >>)

\* A full chart has been drawn after an eviction; its second point has x = 1.
C7_Witness ==
  /\ pc = "rendered"
  /\ Len(log) > max_history
  /\ Len(frame.memory_points) = max_history
  /\ Len(memory_history) >= 2
  /\ frame.memory_points[2] = << 1, memory_history[2] >>

(***************************************************************************)
(* C8.  The alarm does not latch: the alarm step sets critical_alarm from  *)
(* the percentage of the current tick alone, so a tick at or below 90      *)
(* leaves it false even after a tick above 90 whose value is still in      *)
(* memory_history.                                                         *)
(***************************************************************************)
C8_AlarmDoesNotLatch ==
  [][ pc = "appended" =>
        /\ critical_alarm' = Exceeds90(memory_percentage)
        /\ (critical_alarm /\ ~Exceeds90(memory_percentage)) => ~critical_alarm' ]_vars

\* Above 90, then at most 90: alarm down while the high value is still stored.
C8_Witness ==
  /\ pc = "idle"
  /\ Len(log) >= 2
  /\ Len(memory_history) >= 2
  /\ Exceeds90(log[Len(log) - 1].memory_percentage)
  /\ ~Exceeds90(log[Len(log)].memory_percentage)
  /\ Exceeds90(memory_history[Len(memory_history) - 1])
  /\ ~critical_alarm

(***************************************************************************)
(* C9.  The histories stay paired through eviction: memory_history[i] and  *)
(* swap_history[i] are the two percentages of one and the same sample, and *)
(* the append step evicts exactly when the pushed memory history exceeds   *)
(* max_history, removing index 0 of both.                                  *)
(***************************************************************************)
C9_HistoriesPaired ==
  /\ [](/\ Len(memory_history) = Len(swap_history)
        /\ \A i \in 1..Len(memory_history) :
             LET j == Appended - Len(memory_history) + i
             IN  /\ j \in 1..Len(log)
                 /\ log[j].memory_percentage = memory_history[i]
                 /\ log[j].swap_percentage = swap_history[i])
  /\ [][ pc = "sampled" =>
           LET m == memory_history \o << memory_percentage >>
               s == swap_history \o << swap_percentage >>
           IN  IF Len(memory_history) + 1 > max_history
                 THEN /\ memory_history' = SubSeq(m, 2, Len(m))
                      /\ swap_history' = SubSeq(s, 2, Len(s))
                 ELSE /\ memory_history' = m
                      /\ swap_history' = s ]_vars

\* After an eviction, with two different swap values stored.
C9_Witness ==
  /\ pc = "appended"
  /\ Len(log) > max_history
  /\ Len(swap_history) >= 2
  /\ swap_history[1] # swap_history[2]
  /\ memory_history[1] # memory_history[2]

(***************************************************************************)
(* C10.  Every tick ends by requesting the next repaint: an update that    *)
(* has started runs sample, append, alarm, rendering and then the request, *)
(* so no update ends without it.                                           *)
(***************************************************************************)
C10_EveryTickRequestsRepaint ==
  /\ pc \in {"idle", "sampled", "appended", "alarmed", "rendered"}
  /\ (pc = "idle" /\ Len(log) > 0) => repaint_requested

====
